---- MODULE Spec2Model ----
(***************************************************************************)
(* A model of the AwesomeGIC bank ledger of src/bank_account.py: accounts  *)
(* with their transactions and balance, the bank's interest rules, and the *)
(* interest computed for an account and a month.                           *)
(*                                                                         *)
(* Strings are sequences of one-character strings, so that the regular     *)
(* expressions, startswith, the lexicographic comparisons and strptime of  *)
(* the source are modelled by what they do to the characters.  Amounts are *)
(* counted in thousandths of the currency unit (1000 is 1.00, 1005 is      *)
(* 1.005); interest rates are whole percents.  Floating point rounding     *)
(* error, NaN and infinities are outside the model.                        *)
(***************************************************************************)
EXTENDS Integers, Sequences, FiniteSets, TLC

VARIABLES accounts, interest_rules, last

vars == <<accounts, interest_rules, last>>

\* ------------------------------------------------------------------ bounds

\* Stored transactions, over all accounts, in the transaction ledger runs.
MaxTxns == 2

\* Stored transactions of account AC001 dated 20230601 in the id runs, and
\* stored transactions of any other account or date in them.
MaxSameDay == 10
MaxOther == 2

\* Stored transactions in the runs of the whole ledger.
MaxLedgerTxns == 2

\* ----------------------------------------------------------------- strings

Digits == {"0", "1", "2", "3", "4", "5", "6", "7", "8", "9"}

DigitChars == <<"0", "1", "2", "3", "4", "5", "6", "7", "8", "9">>

\* int() of one decimal digit.
DigitValues ==
    [c \in Digits |-> CHOOSE v \in 0..9 : DigitChars[v + 1] = c]

DigitVal(c) == DigitValues[c]

\* The code point order of the characters the model uses: "-" < digits < "x".
Ord(c) == IF c \in Digits THEN 48 + DigitVal(c) ELSE IF c = "-" THEN 45 ELSE 120

\* Python's s < t on strings: lexicographic, a proper prefix is smaller.
RECURSIVE StrLess(_, _)
StrLess(s, t) ==
    IF t = <<>> THEN FALSE
    ELSE IF s = <<>> THEN TRUE
    ELSE IF Ord(Head(s)) # Ord(Head(t)) THEN Ord(Head(s)) < Ord(Head(t))
    ELSE StrLess(Tail(s), Tail(t))

StrLeq(s, t) == s = t \/ StrLess(s, t)

\* re.match(r'\d{n}', s): the pattern is anchored at the start only.
ReMatchDigits(n, s) == Len(s) >= n /\ \A i \in 1..n : s[i] \in Digits

\* s.startswith(p)
StartsWith(s, p) == Len(s) >= Len(p) /\ SubSeq(s, 1, Len(p)) = p

\* txn_type.upper()
Upper(t) == IF t = "d" THEN "D" ELSE IF t = "w" THEN "W" ELSE t

\* The decimal digits of a natural number, most significant first.
RECURSIVE DecimalDigits(_)
DecimalDigits(n) ==
    IF n < 10 THEN <<DigitChars[n + 1]>>
    ELSE Append(DecimalDigits(n \div 10), DigitChars[(n % 10) + 1])

\* f"{n:02d}": at least two digits, padded with zeros on the left.
Format02d(n) ==
    LET ds == DecimalDigits(n)
    IN  IF Len(ds) < 2 THEN <<"0">> \o ds ELSE ds

\* round(amount, 2) on thousandths: to the nearest multiple of ten, ties to even.
Round2(amount) ==
    LET q == amount \div 10
        r == amount % 10
    IN  IF r < 5 THEN 10 * q
        ELSE IF r > 5 THEN 10 * (q + 1)
        ELSE IF q % 2 = 0 THEN 10 * q ELSE 10 * (q + 1)

\* ------------------------------------------------------------------ inputs

D20230520 == <<"2", "0", "2", "3", "0", "5", "2", "0">>
D20230601 == <<"2", "0", "2", "3", "0", "6", "0", "1">>
D20230602 == <<"2", "0", "2", "3", "0", "6", "0", "2">>
D20230603 == <<"2", "0", "2", "3", "0", "6", "0", "3">>
\* Eight digits that are no calendar day.
D20230632 == <<"2", "0", "2", "3", "0", "6", "3", "2">>
\* Eight digits followed by a further character.
D20230601x == <<"2", "0", "2", "3", "0", "6", "0", "1", "x">>
\* Seven digits.
D2023060 == <<"2", "0", "2", "3", "0", "6", "0">>

AccountIds == {"AC001", "AC002"}

\* ----------------------------------------------------------------- records

NoError == "none"
InvalidDate == "Invalid date format. Use YYYYMMDD."
InvalidType == "Invalid transaction type."
InvalidAmount == "Invalid amount."
InsufficientBalance == "Insufficient balance"
InvalidRate == "Invalid interest rate"
InvalidYearMonth == "Invalid year-month format. Use YYYYMM."
StrptimeError == "strptime: ValueError"

\* Transaction.__init__
Transaction(date, account, txn_type, amount, txn_id) ==
    [date |-> date, account |-> account, txn_type |-> Upper(txn_type),
     amount |-> Round2(amount), txn_id |-> txn_id]

\* Account.__init__
Account(account_id) ==
    [account_id |-> account_id, transactions |-> <<>>, balance |-> 0]

\* The outcome of the last call: the operation, the account it named, the
\* error it raised (NoError when it returned), whether the call found its
\* target absent (flag), and the value it returned.
Outcome(op, account, error, flag, total, value) ==
    [op |-> op, account |-> account, error |-> error, flag |-> flag,
     total |-> total, value |-> value]

\* ----------------------------------------------------------------- Account

\* Account.generate_transaction_id, with a wrong count: every transaction of
\* the account, whatever its date.
GenerateTransactionIdAllDates(acc, date) ==
    date \o <<"-">> \o Format02d(Len(acc.transactions) + 1)

\* Account.generate_transaction_id
GenerateTransactionId(acc, date) ==
    LET count == Cardinality({i \in 1..Len(acc.transactions) :
                                  acc.transactions[i].date = date})
    IN  date \o <<"-">> \o Format02d(count + 1)

\* The withdrawal check of Account.add_transaction, off by one: a withdrawal
\* of the whole balance is refused.
OverdrawsStrict(acc, txn_type, amount) ==
    Upper(txn_type) = "W" /\ acc.balance - amount <= 0

\* The withdrawal check of Account.add_transaction.
Overdraws(acc, txn_type, amount) ==
    Upper(txn_type) = "W" /\ acc.balance - amount < 0

\* The date check of Account.add_transaction.
DateAccepted(date) == ReMatchDigits(8, date)

\* The checks of Account.add_transaction, in the order of the code: the error
\* raised, or NoError.
AddTransactionError(acc, date, txn_type, amount) ==
    IF ~DateAccepted(date) THEN InvalidDate
    ELSE IF Upper(txn_type) \notin {"D", "W"} THEN InvalidType
    ELSE IF amount <= 0 \/ Round2(amount) # amount THEN InvalidAmount
    ELSE IF Overdraws(acc, txn_type, amount) THEN InsufficientBalance
    ELSE NoError

\* The balance update of Account.add_transaction applied to every admitted
\* transaction as if it were a deposit.
NewBalanceAlwaysAdds(acc, txn_type, amount) == acc.balance + amount

\* The balance update of Account.add_transaction.
NewBalance(acc, txn_type, amount) ==
    IF Upper(txn_type) = "D" THEN acc.balance + amount
    ELSE IF Upper(txn_type) = "W" THEN acc.balance - amount
    ELSE acc.balance

\* Account.add_transaction once the checks have passed.
AccountAddTransaction(acc, date, txn_type, amount) ==
    LET txn_id == GenerateTransactionId(acc, date)
        transaction == Transaction(date, acc.account_id, txn_type, amount, txn_id)
    IN  [acc EXCEPT !.transactions = Append(@, transaction),
                    !.balance = NewBalance(acc, txn_type, amount)]

\* Account.get_statement's filter taking the year alone.
InStatementYearOnly(txn, year_month) ==
    StartsWith(txn.date, SubSeq(year_month, 1, 4))

\* Account.get_statement's filter.
InStatement(txn, year_month) == StartsWith(txn.date, year_month)

\* -------------------------------------------------------------------- Bank

\* Stored transactions over all accounts.
RECURSIVE TotalTxns(_, _)
TotalTxns(accs, ids) ==
    IF ids = {} THEN 0
    ELSE LET a == CHOOSE x \in ids : TRUE
         IN  Len(accs[a].transactions) + TotalTxns(accs, ids \ {a})

StoredTxns == TotalTxns(accounts, DOMAIN accounts)

\* Bank.add_transaction: the account is created when absent, then
\* Account.add_transaction runs on it.
BankAddTransaction(date, account_id, txn_type, amount) ==
    LET absent == account_id \notin DOMAIN accounts
        withAccount == IF absent
                       THEN accounts @@ (account_id :> Account(account_id))
                       ELSE accounts
        acc == withAccount[account_id]
        error == AddTransactionError(acc, date, txn_type, amount)
    IN  /\ accounts' = IF error = NoError
                       THEN [withAccount EXCEPT ![account_id] =
                                AccountAddTransaction(acc, date, txn_type, amount)]
                       ELSE withAccount
        /\ last' = Outcome("add_transaction", account_id, error, absent, 0, 0)
        /\ UNCHANGED interest_rules

\* InterestRule.__init__ once its checks have passed.
InterestRule(date, rule_id, rate) ==
    [date |-> date, rule_id |-> rule_id, rate |-> rate]

\* The checks of InterestRule.__init__: the error raised, or NoError.
InterestRuleError(date, rate) ==
    IF ~ReMatchDigits(8, date) THEN InvalidDate
    ELSE IF rate <= 0 \/ rate >= 100 THEN InvalidRate
    ELSE NoError

\* The rate check of Bank.add_interest_rule with the bounds let in.
RateRejectedOutsideClosed(rate) == rate < 0 \/ rate > 100

\* The rate check of Bank.add_interest_rule.
RateRejected(rate) == rate <= 0 \/ rate >= 100

\* The filter of Bank.add_interest_rule left out: every rule is kept.
RulesKeepAll(rules, date) == rules

\* [rule for rule in self.interest_rules if rule.date != date]
RulesWithoutDate(rules, date) == SelectSeq(rules, LAMBDA r : r.date # date)

\* One step of the stable sort: rule goes after every rule whose date is not
\* greater than its own.
RECURSIVE InsertByDate(_, _)
InsertByDate(sorted, rule) ==
    IF sorted = <<>> THEN <<rule>>
    ELSE IF StrLess(rule.date, sorted[Len(sorted)].date)
         THEN Append(InsertByDate(SubSeq(sorted, 1, Len(sorted) - 1), rule),
                     sorted[Len(sorted)])
         ELSE Append(sorted, rule)

\* self.interest_rules.sort(key=lambda r: r.date): stable, ascending.
RECURSIVE SortByDate(_)
SortByDate(rules) ==
    IF rules = <<>> THEN <<>>
    ELSE InsertByDate(SortByDate(SubSeq(rules, 1, Len(rules) - 1)),
                      rules[Len(rules)])

\* Bank.add_interest_rule: the rate check, then the list without the rules of
\* that date is assigned, then InterestRule is built (and may raise), then
\* the rule is appended and the list sorted.
BankAddInterestRule(date, rule_id, rate) ==
    LET existed == \E i \in 1..Len(interest_rules) : interest_rules[i].date = date
        filtered == RulesWithoutDate(interest_rules, date)
        error == IF RateRejected(rate) THEN InvalidRate
                 ELSE InterestRuleError(date, rate)
    IN  /\ interest_rules' =
              IF RateRejected(rate) THEN interest_rules
              ELSE IF error # NoError THEN filtered
              ELSE SortByDate(Append(filtered, InterestRule(date, rule_id, rate)))
        /\ last' = Outcome("add_interest_rule", "", error, existed, 0, 0)
        /\ UNCHANGED accounts

\* The format check of Account.get_statement: the error raised, or NoError.
GetStatementError(year_month) ==
    IF ~ReMatchDigits(6, year_month) THEN InvalidYearMonth ELSE NoError

\* Account.get_statement once the format check has passed.
GetStatement(acc, year_month) ==
    SelectSeq(acc.transactions, LAMBDA txn : InStatement(txn, year_month))

\* The signed amount of calculate_interest with the sign of a deposit lost.
TxnDeltaAlwaysNegative(txn) == -txn.amount

\* txn.amount if txn.txn_type == "D" else -txn.amount
TxnDelta(txn) == IF txn.txn_type = "D" THEN txn.amount ELSE -txn.amount

\* The dictionary end_of_day_balances: for each date of the statement, the
\* sum of the signed amounts of its transactions.
RECURSIVE EndOfDayBalances(_)
EndOfDayBalances(statement) ==
    IF statement = <<>> THEN <<>>
    ELSE LET n == Len(statement)
             sofar == EndOfDayBalances(SubSeq(statement, 1, n - 1))
             txn == statement[n]
         IN  IF txn.date \in DOMAIN sofar
             THEN [sofar EXCEPT ![txn.date] = @ + TxnDelta(txn)]
             ELSE sofar @@ (txn.date :> (0 + TxnDelta(txn)))

\* sorted(keys): ascending in the order of strings.
RECURSIVE SortedDays(_)
SortedDays(days) ==
    IF days = {} THEN <<>>
    ELSE LET first == CHOOSE d \in days : \A e \in days : StrLeq(d, e)
         IN  <<first>> \o SortedDays(days \ {first})

\* balance at each pass of the loop: prev_balance starts at 0 and takes the
\* balance of the pass before.
RECURSIVE DayBalances(_, _)
DayBalances(sorted_days, end_of_day_balances) ==
    IF sorted_days = <<>> THEN <<>>
    ELSE LET n == Len(sorted_days)
             before == DayBalances(SubSeq(sorted_days, 1, n - 1),
                                   end_of_day_balances)
             prev_balance == IF n = 1 THEN 0 ELSE before[n - 1]
         IN  Append(before, prev_balance + end_of_day_balances[sorted_days[n]])

\* max((rule for rule in rules if rule.date <= day), key=lambda r: r.date,
\* default=None): the index of the first rule of the greatest date among
\* those not after day, 0 for None.
ApplicableRule(rules, day) ==
    LET among == {i \in 1..Len(rules) : StrLeq(rules[i].date, day)}
    IN  IF among = {} THEN 0
        ELSE CHOOSE i \in among :
                /\ \A j \in among : StrLeq(rules[j].date, rules[i].date)
                /\ \A j \in among : rules[j].date = rules[i].date => i <= j

IsLeap(year) == year % 4 = 0 /\ (year % 100 # 0 \/ year % 400 = 0)

DaysInMonth(year, month) ==
    IF month = 2 THEN (IF IsLeap(year) THEN 29 ELSE 28)
    ELSE IF month \in {4, 6, 9, 11} THEN 30 ELSE 31

RECURSIVE DaysBeforeMonth(_, _)
DaysBeforeMonth(year, month) ==
    IF month = 1 THEN 0
    ELSE DaysBeforeMonth(year, month - 1) + DaysInMonth(year, month - 1)

DaysBeforeYear(year) ==
    LET y == year - 1
    IN  y * 365 + (y \div 4) - (y \div 100) + (y \div 400)

\* datetime.datetime.strptime(s, "%Y%m%d") of a string that starts with eight
\* digits, as the ordinal of the day; -1 when it raises ValueError: data left
\* over after the eighth character, a month or day that is none, year 0.
Strptime(s) ==
    IF Len(s) # 8 \/ ~ReMatchDigits(8, s) THEN -1
    ELSE LET year == 1000 * DigitVal(s[1]) + 100 * DigitVal(s[2])
                       + 10 * DigitVal(s[3]) + DigitVal(s[4])
             month == 10 * DigitVal(s[5]) + DigitVal(s[6])
             day == 10 * DigitVal(s[7]) + DigitVal(s[8])
         IN  IF year < 1 \/ month < 1 \/ month > 12 THEN -1
             ELSE IF day < 1 \/ day > DaysInMonth(year, month) THEN -1
             ELSE DaysBeforeYear(year) + DaysBeforeMonth(year, month) + day

\* num_days of pass i (from 1 here): 1 on the first pass, else the days from
\* the day before to this one; -1 when strptime raises.
NumDays(sorted_days, i) ==
    IF i = 1 THEN 1
    ELSE IF Strptime(sorted_days[i]) = -1 \/ Strptime(sorted_days[i - 1]) = -1
         THEN -1
         ELSE Strptime(sorted_days[i]) - Strptime(sorted_days[i - 1])

DaysPerYear == 365

\* The loop of calculate_interest from pass i on: the error raised, and
\* total_interest as the sum of balance * rate * num_days, to be divided by
\* DaysPerYear.
RECURSIVE InterestLoop(_, _, _, _, _)
InterestLoop(sorted_days, balances, rules, i, total) ==
    IF i > Len(sorted_days) THEN [error |-> NoError, total |-> total]
    ELSE LET applicable_rule == ApplicableRule(rules, sorted_days[i])
         IN  IF applicable_rule = 0
             THEN InterestLoop(sorted_days, balances, rules, i + 1, total)
             ELSE IF NumDays(sorted_days, i) = -1
             THEN [error |-> StrptimeError, total |-> total]
             ELSE InterestLoop(sorted_days, balances, rules, i + 1,
                     total + balances[i] * rules[applicable_rule].rate
                                 * NumDays(sorted_days, i))

\* round(total / DaysPerYear, 2) in thousandths: the nearest multiple of ten,
\* ties to even.
RoundQuotient2(total) ==
    LET unit == 10 * DaysPerYear
        q == total \div unit
        r == total % unit
    IN  IF 2 * r < unit THEN 10 * q
        ELSE IF 2 * r > unit THEN 10 * (q + 1)
        ELSE IF q % 2 = 0 THEN 10 * q ELSE 10 * (q + 1)

\* Bank.calculate_interest: the error raised (NoError when it returns), the
\* unrounded interest times DaysPerYear, and the value returned.
CalculateInterest(accs, rules, account_id, year_month) ==
    IF account_id \notin DOMAIN accs
    THEN [error |-> NoError, total |-> 0, value |-> 0]
    ELSE IF GetStatementError(year_month) # NoError
    THEN [error |-> GetStatementError(year_month), total |-> 0, value |-> 0]
    ELSE LET statement == GetStatement(accs[account_id], year_month)
             end_of_day_balances == EndOfDayBalances(statement)
             sorted_days == SortedDays(DOMAIN end_of_day_balances)
             balances == DayBalances(sorted_days, end_of_day_balances)
             loop == InterestLoop(sorted_days, balances, rules, 1, 0)
         IN  IF statement = <<>>
             THEN [error |-> NoError, total |-> 0, value |-> 0]
             ELSE IF loop.error # NoError
             THEN [error |-> loop.error, total |-> 0, value |-> 0]
             ELSE [error |-> NoError, total |-> loop.total,
                   value |-> RoundQuotient2(loop.total)]

\* A call of Bank.calculate_interest: it reads the bank and changes nothing.
BankCalculateInterest(account_id, year_month) ==
    LET result == CalculateInterest(accounts, interest_rules, account_id,
                                    year_month)
    IN  /\ last' = Outcome("calculate_interest", account_id, result.error,
                           account_id \notin DOMAIN accounts,
                           result.total, result.value)
        /\ UNCHANGED <<accounts, interest_rules>>

\* Bank.__init__
Init ==
    /\ accounts = <<>>
    /\ interest_rules = <<>>
    /\ last = Outcome("init", "", NoError, FALSE, 0, 0)

\* Whether Bank.add_transaction would store the transaction.
Admits(date, account_id, txn_type, amount) ==
    LET acc == IF account_id \in DOMAIN accounts THEN accounts[account_id]
               ELSE Account(account_id)
    IN  AddTransactionError(acc, date, txn_type, amount) = NoError

\* ------------------------------------------------- the transaction ledger

TxnDates == {D20230601, D20230601x, D2023060}
TxnTypes == {"D", "W", "w", "X"}
TxnAmounts == {0, 1005, 1000, 2000}

\* Any call of Bank.add_transaction; a call that stores a transaction only
\* while fewer than MaxTxns are stored.
NextTxn ==
    \E date \in TxnDates, account_id \in AccountIds,
       txn_type \in TxnTypes, amount \in TxnAmounts :
        /\ Admits(date, account_id, txn_type, amount) => StoredTxns < MaxTxns
        /\ BankAddTransaction(date, account_id, txn_type, amount)

SpecTxn == Init /\ [][NextTxn]_vars

\* The account a call of add_transaction works on: the stored one, or the
\* fresh one the bank creates.
Before(account_id) ==
    IF account_id \in DOMAIN accounts THEN accounts[account_id]
    ELSE Account(account_id)

\* The sum of the amounts of the transactions of one kind in a list.
RECURSIVE SumOfKind(_, _)
SumOfKind(txns, kind) ==
    IF txns = <<>> THEN 0
    ELSE (IF Head(txns).txn_type = kind THEN Head(txns).amount ELSE 0)
         + SumOfKind(Tail(txns), kind)

\* C1: after any sequence of add_transaction calls, successful or failing,
\* every account's balance is the sum of its stored deposits minus the sum of
\* its stored withdrawals, and is never negative.
C1_BalanceIsSignedSum ==
    \A a \in DOMAIN accounts :
        /\ accounts[a].balance = SumOfKind(accounts[a].transactions, "D")
                                   - SumOfKind(accounts[a].transactions, "W")
        /\ accounts[a].balance >= 0

\* An account holding a deposit and a withdrawal and a positive balance, right
\* after a call that failed.
C1_Witness ==
    /\ last.op = "add_transaction" /\ last.error # NoError
    /\ \E a \in DOMAIN accounts :
          /\ accounts[a].balance > 0
          /\ SumOfKind(accounts[a].transactions, "D") > 0
          /\ SumOfKind(accounts[a].transactions, "W") > 0

\* C3: a withdrawal of more than the balance ends in an error and leaves the
\* account's balance and transactions as they were; a withdrawal of exactly
\* the balance (a valid date and amount) is admitted and leaves balance 0.
C3_OverdraftRejected ==
    [][\A date \in TxnDates, txn_type \in {"W", "w"}, amount \in TxnAmounts :
          LET account_id == last'.account
              before == Before(account_id)
          IN  /\ (/\ last'.op = "add_transaction"
                  /\ amount > before.balance
                  /\ BankAddTransaction(date, account_id, txn_type, amount)) =>
                    /\ last'.error # NoError
                    /\ accounts'[account_id].balance = before.balance
                    /\ accounts'[account_id].transactions = before.transactions
              /\ (/\ last'.op = "add_transaction"
                  /\ amount = before.balance
                  /\ amount > 0 /\ amount % 10 = 0
                  /\ Len(date) >= 8
                  /\ BankAddTransaction(date, account_id, txn_type, amount)) =>
                    /\ last'.error = NoError
                    /\ accounts'[account_id].balance = 0
                    /\ Len(accounts'[account_id].transactions)
                          = Len(before.transactions) + 1]_vars

\* An account emptied by a withdrawal of its whole balance, on which a
\* further withdrawal has just been refused.
C3_Witness ==
    /\ last.op = "add_transaction" /\ last.error = InsufficientBalance
    /\ last.account \in DOMAIN accounts
    /\ LET acc == accounts[last.account]
       IN  /\ acc.balance = 0
           /\ Len(acc.transactions) = 2
           /\ acc.transactions[2].txn_type = "W"

\* C4: a call of add_transaction that fails leaves the account map (its ids,
\* every balance, every transaction list) and the rules as they were.
C4_FailureChangesNothing ==
    [][(last'.op = "add_transaction" /\ last'.error # NoError) =>
          (accounts' = accounts /\ interest_rules' = interest_rules)]_vars

\* C9: every stored transaction's date is exactly eight decimal digits.
C9_StoredDatesAreEightDigits ==
    \A a \in DOMAIN accounts :
        \A i \in 1..Len(accounts[a].transactions) :
            LET date == accounts[a].transactions[i].date
            IN  Len(date) = 8 /\ \A j \in 1..8 : date[j] \in Digits

\* ------------------------------------------------------ transaction ids

\* The stored transactions of an account with a given date.
SameDayCount(account_id, date) ==
    IF account_id \notin DOMAIN accounts THEN 0
    ELSE Cardinality({i \in 1..Len(accounts[account_id].transactions) :
                         accounts[account_id].transactions[i].date = date})

\* Calls of Bank.add_transaction: deposits on two dates of two accounts, and
\* calls that fail each check (a bad date, a bad kind, a bad amount, a
\* withdrawal no balance of these runs covers).
IdCalls ==
    {<<date, account_id, "D", 1000>> :
        date \in {D20230601, D20230602}, account_id \in AccountIds}
    \cup {<<D2023060, account_id, "D", 1000>> : account_id \in AccountIds}
    \cup {<<date, account_id, "X", 1000>> :
            date \in {D20230601, D20230602}, account_id \in AccountIds}
    \cup {<<date, account_id, "D", 0>> :
            date \in {D20230601, D20230602}, account_id \in AccountIds}
    \cup {<<date, account_id, "W", 99000>> :
            date \in {D20230601, D20230602}, account_id \in AccountIds}

\* A stored transaction goes to AC001 on 20230601 while fewer than MaxSameDay
\* are there, and anywhere else while fewer than MaxOther are elsewhere.
NextIds ==
    \E call \in IdCalls :
        /\ Admits(call[1], call[2], call[3], call[4]) =>
              IF call[2] = "AC001" /\ call[1] = D20230601
              THEN SameDayCount("AC001", D20230601) < MaxSameDay
              ELSE StoredTxns - SameDayCount("AC001", D20230601) < MaxOther
        /\ BankAddTransaction(call[1], call[2], call[3], call[4])

SpecIds == Init /\ [][NextIds]_vars

\* The number of the first i transactions of a list that carry the date of
\* the i-th.
RankOnDate(txns, i) ==
    Cardinality({j \in 1..i : txns[j].date = txns[i].date})

\* C5: the k-th stored transaction of an account on a date (k at most 99) has
\* the id date-NN, NN the two decimal digits of k, and no two transactions of
\* one account share an id, whatever calls failed or went to other accounts
\* and dates in between.
C5_IdsCountSameDay ==
    \A a \in DOMAIN accounts :
        LET txns == accounts[a].transactions
        IN  /\ \A i \in 1..Len(txns) :
                  LET k == RankOnDate(txns, i)
                  IN  k <= 99 =>
                        txns[i].txn_id = txns[i].date
                            \o <<"-", DigitChars[(k \div 10) + 1],
                                 DigitChars[(k % 10) + 1]>>
            /\ \A i, j \in 1..Len(txns) :
                  txns[i].txn_id = txns[j].txn_id => i = j

\* AC001 holds ten transactions of one day, with a transaction of another
\* day stored before the last of them, AC002 holds a transaction too, and
\* the last call failed.
C5_Witness ==
    /\ last.error # NoError
    /\ SameDayCount("AC001", D20230601) >= 10
    /\ SameDayCount("AC001", D20230602) >= 1
    /\ SameDayCount("AC002", D20230601) >= 1
    /\ LET txns == accounts["AC001"].transactions
       IN  /\ txns[Len(txns)].date = D20230601
           /\ txns[1].date = D20230601

\* ---------------------------------------------------------- interest rules

RuleDates == {D20230520, D20230601, D20230601x, D2023060}
RuleIds == {"RULE01", "RULE02"}
RuleRates == {-1, 0, 2, 5, 100, 101}

\* Any call of Bank.add_interest_rule.
NextRules ==
    \E date \in RuleDates, rule_id \in RuleIds, rate \in RuleRates :
        BankAddInterestRule(date, rule_id, rate)

SpecRules == Init /\ [][NextRules]_vars

\* C6: after every call of add_interest_rule the rules are in strictly
\* ascending date order (so at most one per date); a call that succeeds leaves
\* its own rule id and rate as the rule of its date and the rules of the other
\* dates as they were, and a call that fails leaves every rule as it was: each
\* date holds its last successful definition.
C6_LastRuleWinsSorted ==
    [][\A date \in RuleDates, rule_id \in RuleIds, rate \in RuleRates :
          BankAddInterestRule(date, rule_id, rate) =>
              /\ \A i \in 1..(Len(interest_rules') - 1) :
                    StrLess(interest_rules'[i].date, interest_rules'[i + 1].date)
              /\ last'.error = NoError =>
                    /\ \E i \in 1..Len(interest_rules') :
                          interest_rules'[i] =
                              [date |-> date, rule_id |-> rule_id, rate |-> rate]
                    /\ {interest_rules'[i] : i \in
                           {j \in 1..Len(interest_rules') :
                               interest_rules'[j].date # date}}
                       = {interest_rules[i] : i \in
                           {j \in 1..Len(interest_rules) :
                               interest_rules[j].date # date}}
              /\ last'.error # NoError => interest_rules' = interest_rules]_vars

\* A successful definition has just replaced the rule of its date, next to
\* rules of two other dates.
C6_Witness ==
    /\ last.op = "add_interest_rule" /\ last.error = NoError /\ last.flag
    /\ Len(interest_rules) = 3

\* C7: a call of add_interest_rule with a rate at or below 0 or at or above
\* 100 ends in an error and leaves the rule list as it was, also when the date
\* already has a rule; every stored rule has 0 < rate < 100.
C7_BadRateRejected ==
    [][/\ \A date \in RuleDates, rule_id \in RuleIds, rate \in RuleRates :
             ((rate <= 0 \/ rate >= 100)
                 /\ BankAddInterestRule(date, rule_id, rate)) =>
                   (last'.error # NoError /\ interest_rules' = interest_rules)
       /\ \A i \in 1..Len(interest_rules') :
             interest_rules'[i].rate > 0 /\ interest_rules'[i].rate < 100]_vars

\* A call with a bad rate has just failed for a date that has a rule.
C7_Witness ==
    /\ last.op = "add_interest_rule" /\ last.error = InvalidRate /\ last.flag
    /\ Len(interest_rules) >= 1

\* -------------------------------------------------------- the whole ledger

LedgerDates == {D20230520, D20230601, D20230603, D20230632}
LedgerTypes == {"D", "W"}
LedgerRuleDates == {D20230520, D20230602}
LedgerRates == {0, 2, 5}
QueryAccounts == {"AC001", "AC999"}
YM202305 == <<"2", "0", "2", "3", "0", "5">>
YM202306 == <<"2", "0", "2", "3", "0", "6">>
YM2023 == <<"2", "0", "2", "3">>
Months == {YM202305, YM202306}

\* The menu loop: a transaction, an interest rule or the interest of a
\* statement, in any order.
Next ==
    \/ \E date \in LedgerDates, txn_type \in LedgerTypes :
          /\ Admits(date, "AC001", txn_type, 1000) => StoredTxns < MaxLedgerTxns
          /\ BankAddTransaction(date, "AC001", txn_type, 1000)
    \/ \E date \in LedgerRuleDates, rate \in LedgerRates :
          BankAddInterestRule(date, "RULE01", rate)
    \/ \E account_id \in QueryAccounts, year_month \in Months \cup {YM2023} :
          BankCalculateInterest(account_id, year_month)

Spec == Init /\ [][Next]_vars

\* The account's transactions dated in a month: the first six characters of
\* the date are the month.
TxnsOfMonth(acc, year_month) ==
    {i \in 1..Len(acc.transactions) :
        SubSeq(acc.transactions[i].date, 1, 6) = year_month}

\* The distinct transaction days of a month.
DaysOfMonth(acc, year_month) ==
    {acc.transactions[i].date : i \in TxnsOfMonth(acc, year_month)}

\* Deposits minus withdrawals of the month's transactions dated up to day d.
RECURSIVE NetOf(_, _)
NetOf(acc, indices) ==
    IF indices = {} THEN 0
    ELSE LET i == CHOOSE x \in indices : TRUE
             txn == acc.transactions[i]
         IN  (IF txn.txn_type = "D" THEN txn.amount ELSE 0 - txn.amount)
             + NetOf(acc, indices \ {i})

BalanceUpTo(acc, year_month, d) ==
    NetOf(acc, {i \in TxnsOfMonth(acc, year_month) :
                   StrLeq(acc.transactions[i].date, d)})

\* The day of the month written in the last two of eight digits.
DayNumber(d) == 10 * DigitVal(d[7]) + DigitVal(d[8])

\* 1 for the first transaction day of the month, else the days since the
\* transaction day before it.
SpanOf(acc, year_month, d) ==
    LET earlier == {e \in DaysOfMonth(acc, year_month) : StrLess(e, d)}
    IN  IF earlier = {} THEN 1
        ELSE LET prev == CHOOSE e \in earlier : \A f \in earlier : StrLeq(f, e)
             IN  DayNumber(d) - DayNumber(prev)

\* The percentage of the rule with the latest effective date not after d, 0
\* when no rule is effective on or before d.
RateOn(rules, d) ==
    LET effective == {i \in 1..Len(rules) : StrLeq(rules[i].date, d)}
    IN  IF effective = {} THEN 0
        ELSE LET latest == CHOOSE i \in effective :
                     \A j \in effective : ~StrLess(rules[i].date, rules[j].date)
             IN  rules[latest].rate

\* The sum over the transaction days of balance_i * rate(d_i) * days_i.
RECURSIVE AccruedTimes365(_, _, _, _)
AccruedTimes365(acc, rules, year_month, days) ==
    IF days = {} THEN 0
    ELSE LET d == CHOOSE x \in days : TRUE
         IN  BalanceUpTo(acc, year_month, d) * RateOn(rules, d)
                 * SpanOf(acc, year_month, d)
             + AccruedTimes365(acc, rules, year_month, days \ {d})

\* C2: for every account and month with a transaction in that month,
\* calculate_interest returns, before rounding, the sum over the month's
\* transaction days of balance_i * rate(d_i) * days_i / 365.
C2_InterestIsAccruedSum ==
    \A a \in DOMAIN accounts, year_month \in Months :
        TxnsOfMonth(accounts[a], year_month) # {} =>
            LET result == CalculateInterest(accounts, interest_rules, a, year_month)
            IN  /\ result.error = NoError
                /\ result.total = AccruedTimes365(accounts[a], interest_rules,
                       year_month, DaysOfMonth(accounts[a], year_month))

\* The statement of C2 for the months whose transaction days are all
\* calendar days: there calculate_interest returns the accrued sum.
InterestIsAccruedSumOnCalendarDays ==
    \A a \in DOMAIN accounts, year_month \in Months :
        (/\ TxnsOfMonth(accounts[a], year_month) # {}
         /\ \A d \in DaysOfMonth(accounts[a], year_month) : Strptime(d) # -1) =>
            LET result == CalculateInterest(accounts, interest_rules, a, year_month)
            IN  /\ result.error = NoError
                /\ result.total = AccruedTimes365(accounts[a], interest_rules,
                       year_month, DaysOfMonth(accounts[a], year_month))

\* C8: a call of calculate_interest for an account id that is not in the
\* account map, or for an account with no transaction dated in the queried
\* month, returns 0.0, and no call of it changes the accounts or the rules.
C8_ZeroWithoutTransactions ==
    [][\A account_id \in QueryAccounts, year_month \in Months :
          BankCalculateInterest(account_id, year_month) =>
              /\ accounts' = accounts /\ interest_rules' = interest_rules
              /\ (\/ account_id \notin DOMAIN accounts
                  \/ TxnsOfMonth(accounts[account_id], year_month) = {}) =>
                    /\ last'.error = NoError
                    /\ last'.total = 0 /\ last'.value = 0]_vars

\* calculate_interest has just returned 0 for an account whose transactions
\* are all dated 20230520, while a rule is effective from that day: the call
\* was for another month than theirs.
C8_Witness ==
    /\ last.op = "calculate_interest" /\ last.error = NoError
    /\ last.value = 0 /\ last.total = 0
    /\ last.account \in DOMAIN accounts
    /\ Len(accounts[last.account].transactions) >= 1
    /\ \A i \in 1..Len(accounts[last.account].transactions) :
          accounts[last.account].transactions[i].date = D20230520
    /\ \E i \in 1..Len(interest_rules) : interest_rules[i].date = D20230520

\* The balances calculate_interest reconstructs for the days of a month.
ReconstructedBalances(acc, year_month) ==
    LET end_of_day_balances == EndOfDayBalances(GetStatement(acc, year_month))
    IN  DayBalances(SortedDays(DOMAIN end_of_day_balances), end_of_day_balances)

\* C10 as stated: in every reachable state, for every account and month,
\* calculate_interest returns no negative amount.
C10_InterestNeverNegative ==
    \A a \in DOMAIN accounts, year_month \in Months :
        CalculateInterest(accounts, interest_rules, a, year_month).value >= 0

\* Every transaction of the account is dated in the month, and they were
\* recorded in non-decreasing date order.
AllInMonthInDateOrder(acc, year_month) ==
    /\ \A i \in 1..Len(acc.transactions) :
          SubSeq(acc.transactions[i].date, 1, 6) = year_month
    /\ \A i \in 1..(Len(acc.transactions) - 1) :
          StrLeq(acc.transactions[i].date, acc.transactions[i + 1].date)

\* C10 amended: for every account and month such that all the account's
\* transactions are dated in that month and were recorded in non-decreasing
\* date order, calculate_interest returns no negative amount and reconstructs
\* no balance below 0.
C10_NeverNegativeWithinOneMonthInOrder ==
    \A a \in DOMAIN accounts, year_month \in Months :
        AllInMonthInDateOrder(accounts[a], year_month) =>
            /\ CalculateInterest(accounts, interest_rules, a, year_month).value >= 0
            /\ \A i \in 1..Len(ReconstructedBalances(accounts[a], year_month)) :
                  ReconstructedBalances(accounts[a], year_month)[i] >= 0

\* calculate_interest has just returned a positive amount for an account
\* holding a deposit and a later withdrawal of the same month.
C10_Witness ==
    /\ last.op = "calculate_interest" /\ last.error = NoError /\ last.value > 0
    /\ last.account \in DOMAIN accounts
    /\ AllInMonthInDateOrder(accounts[last.account], YM202306)
    /\ \E i \in 1..Len(accounts[last.account].transactions) :
          accounts[last.account].transactions[i].txn_type = "W"

====
